---- MODULE Spec2Model ----
(***************************************************************************)
(* RedisDrizzleCache: the table-aware query cache of packages/db.          *)
(*                                                                         *)
(* Strings are modelled as sequences of tokens, so that the template       *)
(* literals of formatKey and of the tag key are real concatenations.       *)
(* The backing store is a map from physical key to an entry with a payload *)
(* text and an absolute expiry; the clock is in milliseconds.              *)
(***************************************************************************)
EXTENDS Integers, Sequences, FiniteSets, Bags, TLC

VARIABLES
    redis,              \* the backing store: physical key -> entry
    usedTablesPerKey,   \* the table index: table name -> tracked keys
    nowMs,              \* Date.now()
    call,               \* the last completed call, as its caller saw it
    instance,           \* "none" before construction, then the kind of instance
    inflight,           \* bag of the calls suspended at their store round trip
    hist                \* history: what the puts wrote and registered

vars == <<redis, usedTablesPerKey, nowMs, call, instance, inflight, hist>>

----------------------------------------------------------------------------
(* Bounds and sample inputs                                                *)

MaxClockMs == 1000
MaxInFlight == 2
MaxWaitMs == 3000

defaultTtl == 300
namespace == <<"drizzle", ":", "db">>

Keys == { <<"q1">>, <<"q2">> }
TagNames == { <<"q1">> }
TableNames == { "users", "posts" }

----------------------------------------------------------------------------
(* JavaScript values and JSON                                              *)

Num(s) == [t |-> "number", v |-> s]
Str(s) == [t |-> "string", v |-> s]
DateVal(s) == [t |-> "Date", v |-> s]
BigIntVal(s) == [t |-> "bigint", v |-> s]
UndefVal == [t |-> "undefined", v |-> ""]
NullVal == [t |-> "null", v |-> ""]

JsonRows == { <<Num("1")>>, <<Str("a"), NullVal>> }

SampleRows ==
    JsonRows \cup { <<DateVal("2024-01-01T00:00:00.000Z")>>, <<BigIntVal("7")>> }

LBracket == [lit |-> "[", s |-> ""]
RBracket == [lit |-> "]", s |-> ""]

\* JSON.stringify of one array element.
toLiteral(v) ==
    CASE v.t = "number" -> [lit |-> "number", s |-> v.v]
      [] v.t = "string" -> [lit |-> "string", s |-> v.v]
      [] v.t = "Date" -> [lit |-> "string", s |-> v.v]
      [] v.t = "undefined" -> [lit |-> "null", s |-> ""]
      [] v.t = "null" -> [lit |-> "null", s |-> ""]
      [] OTHER -> [lit |-> "throw", s |-> ""]

\* JSON.stringify throws a TypeError on a BigInt.
stringifyThrows(response) ==
    \E i \in 1..Len(response) : response[i].t = "bigint"

JSONstringify(response) ==
    <<LBracket>> \o [i \in 1..Len(response) |-> toLiteral(response[i])]
                 \o <<RBracket>>

fromLiteral(l) ==
    CASE l.lit = "number" -> Num(l.s)
      [] l.lit = "string" -> Str(l.s)
      [] OTHER -> NullVal

\* JSON.parse throws a SyntaxError on a text that is not JSON.
parseThrows(text) ==
    \/ Len(text) < 2
    \/ text[1] # LBracket
    \/ text[Len(text)] # RBracket
    \/ \E i \in 2..(Len(text) - 1) : text[i].lit \notin {"number", "string", "null"}

JSONparse(text) ==
    [i \in 1..(Len(text) - 2) |-> fromLiteral(text[i + 1])]

EmptyText == <<>>
TruncatedText == <<LBracket>>

----------------------------------------------------------------------------
(* Keys                                                                    *)

formatKey_raw(key) == key

formatKey(key) == namespace \o <<":">> \o key

tagKeyOf_plain(tag) == formatKey(tag)

\* this.formatKey(`tag:${tag}`)
tagKeyOf(tag) == formatKey(<<"tag", ":">> \o tag)

PhysKeys == { formatKey(k) : k \in Keys } \cup { tagKeyOf(g) : g \in TagNames }

----------------------------------------------------------------------------
(* TTL                                                                     *)

Unset == [set |-> FALSE, v |-> 0]       \* a config field that is undefined
Set(n) == [set |-> TRUE, v |-> n]

Max(a, b) == IF a >= b THEN a ELSE b

\* An absent config and a config with no field set read the same through
\* config?.ex, so both are the record with every field Unset.
calculateTtl_pxFirst(config, dateNow) ==
    IF config.px.set THEN config.px.v \div 1000
    ELSE IF config.ex.set THEN config.ex.v
    ELSE IF config.exat.set
        THEN LET now == dateNow \div 1000 IN Max(0, config.exat.v - now)
    ELSE IF config.pxat.set
        THEN LET now == dateNow \div 1000 IN Max(0, (config.pxat.v \div 1000) - now)
    ELSE defaultTtl

calculateTtl(config, dateNow) ==
    IF config.ex.set THEN config.ex.v
    ELSE IF config.px.set THEN config.px.v \div 1000
    ELSE IF config.exat.set
        THEN LET now == dateNow \div 1000 IN Max(0, config.exat.v - now)
    ELSE IF config.pxat.set
        THEN LET now == dateNow \div 1000 IN Max(0, (config.pxat.v \div 1000) - now)
    ELSE defaultTtl

Configs ==
    [ex : {Unset, Set(0), Set(10)}, px : {Unset, Set(1500), Set(5000)},
     exat : {Unset, Set(0), Set(2)}, pxat : {Unset, Set(999), Set(3999)}]

NoConfig == [ex |-> Unset, px |-> Unset, exat |-> Unset, pxat |-> Unset]

----------------------------------------------------------------------------
(* The backing store                                                       *)

NoEntry == [live |-> FALSE, text |-> <<>>, expMs |-> 0]

StoreCall(cmd, pk, ttl, ok) == [cmd |-> cmd, key |-> pk, ttl |-> ttl, ok |-> ok]

\* SETEX rejects a TTL that is not positive.
setexOk(ttl, fail) == ~fail /\ ttl > 0

setex(store, pk, ttl, text, dateNow) ==
    [store EXCEPT ![pk] = [live |-> TRUE, text |-> text, expMs |-> dateNow + ttl * 1000]]

RECURSIVE unlinkAll(_, _, _)
unlinkAll(store, targets, failing) ==
    IF targets = <<>> THEN store
    ELSE LET pk == Head(targets)
             next == IF pk \in failing THEN store ELSE [store EXCEPT ![pk] = NoEntry]
         IN unlinkAll(next, Tail(targets), failing)

expire(store, dateNow) ==
    [pk \in DOMAIN store |->
        IF store[pk].live /\ store[pk].expMs <= dateNow THEN NoEntry ELSE store[pk]]

----------------------------------------------------------------------------
(* The table index                                                         *)

NoKeys == [defined |-> FALSE, keys |-> <<>>]
KeyList(ks) == [defined |-> TRUE, keys |-> ks]

includes(seq, x) == \E i \in 1..Len(seq) : seq[i] = x

\* usedTablesPerKey[tableName] ?? []
trackedKeys(used, tableName) == used[tableName].keys

\* The registration loop replacing the key list of the table.
RECURSIVE track_overwrite(_, _, _)
track_overwrite(used, tables, key) ==
    IF tables = <<>> THEN used
    ELSE track_overwrite([used EXCEPT ![Head(tables)] = KeyList(<<key>>)],
                         Tail(tables), key)

\* The registration loop without its includes test.
RECURSIVE track_noCheck(_, _, _)
track_noCheck(used, tables, key) ==
    IF tables = <<>> THEN used
    ELSE LET table == Head(tables)
             keys == used[table]
             next == IF ~keys.defined
                        THEN [used EXCEPT ![table] = KeyList(<<key>>)]
                     ELSE [used EXCEPT ![table] = KeyList(Append(keys.keys, key))]
         IN track_noCheck(next, Tail(tables), key)

\* The registration loop of put.
RECURSIVE track(_, _, _)
track(used, tables, key) ==
    IF tables = <<>> THEN used
    ELSE LET table == Head(tables)
             keys == used[table]
             next == IF ~keys.defined
                        THEN [used EXCEPT ![table] = KeyList(<<key>>)]
                     ELSE IF ~includes(keys.keys, key)
                        THEN [used EXCEPT ![table] = KeyList(Append(keys.keys, key))]
                     ELSE used
         IN track(next, Tail(tables), key)

\* keysToDelete as an array: every add appends.
addAll_noDedupe(set, keys) == set \o keys

\* keysToDelete is a Set: insertion order, no duplicates.
RECURSIVE addAll(_, _)
addAll(set, keys) ==
    IF keys = <<>> THEN set
    ELSE addAll(IF includes(set, Head(keys)) THEN set ELSE Append(set, Head(keys)),
                Tail(keys))

\* Mutations of the collection loop: only the first table; every table.
collectKeys_firstOnly(used, tablesArray, set) ==
    IF tablesArray = <<>> THEN set
    ELSE addAll(set, trackedKeys(used, Head(tablesArray)))

RECURSIVE collectEvery(_, _, _)
collectEvery(used, names, set) ==
    IF names = {} THEN set
    ELSE LET n == CHOOSE x \in names : TRUE
         IN collectEvery(used, names \ {n}, addAll(set, trackedKeys(used, n)))

collectKeys_allTables(used, tablesArray, set) ==
    IF tablesArray = <<>> THEN set
    ELSE collectEvery(used, DOMAIN used, set)

RECURSIVE collectKeys(_, _, _)
collectKeys(used, tablesArray, set) ==
    IF tablesArray = <<>> THEN set
    ELSE collectKeys(used, Tail(tablesArray),
                     addAll(set, trackedKeys(used, Head(tablesArray))))

clearTracking_skip(used, tablesArray) == used

\* Resetting the whole index instead of the tables of the call.
clearTracking_all(used, tablesArray) ==
    IF tablesArray = <<>> THEN used
    ELSE [t \in DOMAIN used |-> KeyList(<<>>)]

clearTracking_firstOnly(used, tablesArray) ==
    IF tablesArray = <<>> THEN used
    ELSE [used EXCEPT ![Head(tablesArray)] = KeyList(<<>>)]

RECURSIVE clearTracking(_, _)
clearTracking(used, tablesArray) ==
    IF tablesArray = <<>> THEN used
    ELSE clearTracking([used EXCEPT ![Head(tablesArray)] = KeyList(<<>>)],
                       Tail(tablesArray))

----------------------------------------------------------------------------
(* Parameters of onMutate: a single value, a sequence, or nothing          *)

Undefined == [kind |-> "undefined", items |-> <<>>]
Scalar(x) == [kind |-> "scalar", items |-> <<x>>]
Array(xs) == [kind |-> "array", items |-> xs]

\* params.tags ? (Array.isArray(params.tags) ? params.tags : [params.tags]) : []
\* An empty string is falsy; an empty array is not.
toArray(param, emptyString) ==
    IF param.kind = "undefined" THEN <<>>
    ELSE IF param.kind = "scalar" /\ param.items[1] = emptyString THEN <<>>
    ELSE param.items

\* A table is given by name or as a Table object.
TableName(name) == [obj |-> FALSE, name |-> name]
TableObject(name) == [obj |-> TRUE, name |-> name]

\* is(table, Table) ? getTableName(table) : (table as string)
tableNameOf(table) == table.name

tableNames(tablesArray) == [i \in 1..Len(tablesArray) |-> tableNameOf(tablesArray[i])]

TagParams == { Undefined, Array(<<>>), Scalar(<<"q1">>), Array(<<<<"q1">>>>) }

TableParams ==
    { Array(<<>>),
      Scalar(TableName("users")),
      Array(<<TableName("posts")>>),
      Array(<<TableName("users"), TableName("posts")>>),
      Array(<<TableObject("users"), TableName("users")>>) }

\* The unlink calls that fail: none, those of one key, or all.
FailSets == { {} } \cup { {pk} : pk \in PhysKeys } \cup { PhysKeys }

PutTables == { <<>>, <<"users">>, <<"posts">>, <<"users", "posts">>, <<"posts", "posts">> }

----------------------------------------------------------------------------
(* The handlers                                                            *)

Miss(io) == [raised |-> FALSE, hit |-> FALSE, result |-> <<>>, io |-> io]

\* get without its try/catch.
get_noCatch(store, key, fail) ==
    LET cacheKey == formatKey(key)
        cached == store[cacheKey]
        io == <<StoreCall("get", cacheKey, 0, ~fail)>>
        Raise == [raised |-> TRUE, hit |-> FALSE, result |-> <<>>, io |-> io]
    IN  IF fail THEN Raise
        ELSE IF ~cached.live \/ cached.text = EmptyText THEN Miss(io)
        ELSE IF parseThrows(cached.text) THEN Raise
        ELSE [raised |-> FALSE, hit |-> TRUE,
              result |-> JSONparse(cached.text), io |-> io]

\* get returning the stored text without parsing it.
get_noParse(store, key, fail) ==
    LET cacheKey == formatKey(key)
        cached == store[cacheKey]
        io == <<StoreCall("get", cacheKey, 0, ~fail)>>
    IN  IF fail THEN Miss(io)
        ELSE IF ~cached.live \/ cached.text = EmptyText THEN Miss(io)
        ELSE [raised |-> FALSE, hit |-> TRUE, result |-> cached.text, io |-> io]

get(store, key, fail) ==
    LET cacheKey == formatKey(key)
        cached == store[cacheKey]
        io == <<StoreCall("get", cacheKey, 0, ~fail)>>
    IN  IF fail THEN Miss(io)                                   \* caught
        ELSE IF ~cached.live \/ cached.text = EmptyText THEN Miss(io)
        ELSE IF parseThrows(cached.text) THEN Miss(io)          \* caught
        ELSE [raised |-> FALSE, hit |-> TRUE,
              result |-> JSONparse(cached.text), io |-> io]

\* put registering the key before the store write is known to have succeeded.
put_trackFirst(store, used, key, response, tables, isTag, config, dateNow, fail) ==
    LET cacheKey == formatKey(key)
        ttl == calculateTtl(config, dateNow)
    IN  IF stringifyThrows(response)
            THEN [redis |-> store, used |-> used, raised |-> FALSE, io |-> <<>>]
        ELSE IF ~setexOk(ttl, fail)
            THEN [redis |-> store, used |-> track(used, tables, key), raised |-> FALSE,
                  io |-> <<StoreCall("setex", cacheKey, ttl, FALSE)>>]
        ELSE [redis |-> setex(store, cacheKey, ttl, JSONstringify(response), dateNow),
              used |-> track(used, tables, key),
              raised |-> FALSE,
              io |-> <<StoreCall("setex", cacheKey, ttl, TRUE)>>]

\* put handing the TTL to setex in milliseconds.
put_ttlMs(store, used, key, response, tables, isTag, config, dateNow, fail) ==
    LET cacheKey == formatKey(key)
        ttl == calculateTtl(config, dateNow) * 1000
    IN  IF stringifyThrows(response)
            THEN [redis |-> store, used |-> used, raised |-> FALSE, io |-> <<>>]
        ELSE IF ~setexOk(ttl, fail)
            THEN [redis |-> store, used |-> used, raised |-> FALSE,
                  io |-> <<StoreCall("setex", cacheKey, ttl, FALSE)>>]
        ELSE [redis |-> setex(store, cacheKey, ttl, JSONstringify(response), dateNow),
              used |-> track(used, tables, key),
              raised |-> FALSE,
              io |-> <<StoreCall("setex", cacheKey, ttl, TRUE)>>]

put(store, used, key, response, tables, isTag, config, dateNow, fail) ==
    LET cacheKey == formatKey(key)
        ttl == calculateTtl(config, dateNow)
    IN  IF stringifyThrows(response)
            THEN [redis |-> store, used |-> used, raised |-> FALSE, io |-> <<>>]
        ELSE IF ~setexOk(ttl, fail)
            THEN [redis |-> store, used |-> used, raised |-> FALSE,
                  io |-> <<StoreCall("setex", cacheKey, ttl, FALSE)>>]
        ELSE [redis |-> setex(store, cacheKey, ttl, JSONstringify(response), dateNow),
              used |-> track(used, tables, key),
              raised |-> FALSE,
              io |-> <<StoreCall("setex", cacheKey, ttl, TRUE)>>]

\* onMutate cleaning up the tracking only after the deletes have resolved.
onMutate_clearAfter(store, used, tags, tables, failing) ==
    LET tagsArray == toArray(tags, <<>>)
        tablesArray == tableNames(toArray(tables, TableName("")))
        keysToDelete == collectKeys(used, tablesArray, <<>>)
        targets == [i \in 1..Len(tagsArray) |-> tagKeyOf(tagsArray[i])]
                   \o [i \in 1..Len(keysToDelete) |-> formatKey(keysToDelete[i])]
        failed == \E i \in 1..Len(targets) : targets[i] \in failing
    IN  IF Len(keysToDelete) > 0 \/ Len(tagsArray) > 0
            THEN [redis |-> unlinkAll(store, targets, failing),
                  used |-> IF failed THEN used ELSE clearTracking(used, tablesArray),
                  raised |-> failed,
                  io |-> [i \in 1..Len(targets) |->
                            StoreCall("unlink", targets[i], 0, targets[i] \notin failing)]]
        ELSE [redis |-> store, used |-> used, raised |-> FALSE, io |-> <<>>]

onMutate(store, used, tags, tables, failing) ==
    LET tagsArray == toArray(tags, <<>>)
        tablesArray == tableNames(toArray(tables, TableName("")))
        keysToDelete == collectKeys(used, tablesArray, <<>>)
        targets == [i \in 1..Len(tagsArray) |-> tagKeyOf(tagsArray[i])]
                   \o [i \in 1..Len(keysToDelete) |-> formatKey(keysToDelete[i])]
    IN  IF Len(keysToDelete) > 0 \/ Len(tagsArray) > 0
            THEN [redis |-> unlinkAll(store, targets, failing),
                  used |-> clearTracking(used, tablesArray),
                  raised |-> \E i \in 1..Len(targets) : targets[i] \in failing,
                  io |-> [i \in 1..Len(targets) |->
                            StoreCall("unlink", targets[i], 0, targets[i] \notin failing)]]
        ELSE [redis |-> store, used |-> used, raised |-> FALSE, io |-> <<>>]

----------------------------------------------------------------------------
(* The state machine                                                       *)

CallRecord(op, key, rows, tables, tags, isTag, config, raised, hit, result, io) ==
    [op |-> op, key |-> key, rows |-> rows, tables |-> tables, tags |-> tags,
     isTag |-> isTag, config |-> config, raised |-> raised, hit |-> hit,
     result |-> result, io |-> io]

NoCall(op) == CallRecord(op, <<>>, <<>>, <<>>, <<>>, FALSE, NoConfig, FALSE, FALSE, <<>>, <<>>)


\* History of the run, read by the properties only.  writer[pk]: the tables
\* declared by the put whose write the store applied last.  While the run
\* consists of puts only (putsOnly): declared holds the <<key, table>> pairs
\* of the puts called, overlapped tells that a put was called while a put
\* sharing a table with it was suspended.
NoHistory == [writer |-> [pk \in PhysKeys |-> <<>>], declared |-> {},
              overlapped |-> FALSE, putsOnly |-> TRUE]

\* The constructor stores what it is given; it checks nothing.
constructor(redisGiven) == IF redisGiven THEN "withStore" ELSE "withoutStore"

\* The instance of client.ts: constructed with a RedisClient.
Init ==
    /\ redis = [pk \in PhysKeys |-> NoEntry]
    /\ usedTablesPerKey = [t \in TableNames |-> NoKeys]
    /\ nowMs = 0
    /\ call = NoCall("new")
    /\ instance = constructor(TRUE)
    /\ inflight = EmptyBag
    /\ hist = NoHistory

\* get dropping an entry whose payload does not parse.
Get_evictCorrupt(key, fail) ==
    LET r == get(redis, key, fail)
        cacheKey == formatKey(key)
        corrupt == ~fail /\ redis[cacheKey].live /\ redis[cacheKey].text # EmptyText
                         /\ parseThrows(redis[cacheKey].text)
    IN  /\ call' = CallRecord("get", key, <<>>, <<>>, <<>>, FALSE, NoConfig,
                              r.raised, r.hit, r.result, r.io)
        /\ redis' = IF corrupt THEN [redis EXCEPT ![cacheKey] = NoEntry] ELSE redis
        /\ UNCHANGED <<usedTablesPerKey, nowMs, instance, inflight, hist>>

Get(key, fail) ==
    LET r == get(redis, key, fail)
    IN  /\ call' = CallRecord("get", key, <<>>, <<>>, <<>>, FALSE, NoConfig,
                              r.raised, r.hit, r.result, r.io)
        /\ UNCHANGED <<redis, usedTablesPerKey, nowMs, instance, inflight, hist>>

Put(key, response, tables, isTag, config, fail) ==
    LET r == put(redis, usedTablesPerKey, key, response, tables, isTag, config, nowMs, fail)
    IN  /\ redis' = r.redis
        /\ usedTablesPerKey' = r.used
        /\ call' = CallRecord("put", key, response, tables, <<>>, isTag, config,
                              r.raised, FALSE, <<>>, r.io)
        /\ UNCHANGED <<nowMs, instance, inflight, hist>>

OnMutate(tags, tables, failing) ==
    LET r == onMutate(redis, usedTablesPerKey, tags, tables, failing)
    IN  /\ redis' = r.redis
        /\ usedTablesPerKey' = r.used
        /\ call' = CallRecord("onMutate", <<>>, <<>>,
                              tableNames(toArray(tables, TableName(""))),
                              toArray(tags, <<>>), FALSE, NoConfig,
                              r.raised, FALSE, <<>>, r.io)
        /\ UNCHANGED <<nowMs, instance, inflight, hist>>

\* Time passes; the store drops the entries whose TTL has elapsed.
Tick(step) ==
    /\ nowMs + step <= MaxClockMs
    /\ nowMs' = nowMs + step
    /\ redis' = expire(redis, nowMs')
    /\ call' = NoCall("tick")
    /\ UNCHANGED <<usedTablesPerKey, instance, inflight, hist>>

\* Another client of the store leaves a payload that is not the JSON of rows.
Corrupt(pk, text) ==
    /\ redis[pk].live
    /\ redis[pk].text # text
    /\ redis' = [redis EXCEPT ![pk].text = text]
    /\ call' = NoCall("corrupt")
    /\ UNCHANGED <<usedTablesPerKey, nowMs, instance, inflight, hist>>

\* The cache under table and tag invalidation, with the default TTL.
Next ==
    \/ \E key \in Keys, fail \in BOOLEAN : Get(key, fail)
    \/ \E key \in Keys, tables \in PutTables, isTag \in BOOLEAN, fail \in BOOLEAN :
            Put(key, <<Num("1")>>, tables, isTag, NoConfig, fail)
    \/ \E tags \in TagParams, tables \in TableParams, failing \in FailSets :
            OnMutate(tags, tables, failing)

Spec == Init /\ [][Next]_vars

\* The cache and its store: payloads, expiry, store failures.
NextStore ==
    \/ \E key \in Keys, fail \in BOOLEAN : Get(key, fail)
    \/ \E key \in Keys, response \in SampleRows,
          config \in {NoConfig, [NoConfig EXCEPT !.ex = Set(1)]}, fail \in BOOLEAN :
            Put(key, response, <<>>, FALSE, config, fail)
    \/ Tick(1000)
    \/ \E pk \in PhysKeys, text \in {EmptyText, TruncatedText} : Corrupt(pk, text)

SpecStore == Init /\ [][NextStore]_vars

\* put under every combination of expiry hints.
NextTtl ==
    \/ \E config \in Configs, fail \in BOOLEAN :
            Put(<<"q1">>, <<Num("1")>>, <<>>, FALSE, config, fail)
    \/ Tick(500)

SpecTtl == Init /\ [][NextTtl]_vars

\* Reads against a store holding sound and unsound payloads, with a
\* populated index.
NextRead ==
    \/ \E key \in Keys, fail \in BOOLEAN : Get(key, fail)
    \/ \E key \in Keys, tables \in { <<>>, <<"users">> }, fail \in BOOLEAN :
            Put(key, <<Num("1")>>, tables, FALSE, NoConfig, fail)
    \/ \E pk \in PhysKeys, text \in {EmptyText, TruncatedText} : Corrupt(pk, text)

SpecRead == Init /\ [][NextRead]_vars

\* Time passes, up to MaxWaitMs; the store drops the entries whose TTL has
\* elapsed.
Expiry(step) ==
    /\ nowMs + step <= MaxWaitMs
    /\ nowMs' = nowMs + step
    /\ redis' = expire(redis, nowMs')
    /\ call' = NoCall("tick")
    /\ UNCHANGED <<usedTablesPerKey, instance, inflight, hist>>

\* A put whose TTL elapses within MaxWaitMs.
PutInTime(key, response, tables, isTag, config, fail) ==
    /\ nowMs + calculateTtl(config, nowMs) * 1000 <= MaxWaitMs
    /\ Put(key, response, tables, isTag, config, fail)

\* The cache over a store that expires entries: puts with short TTLs,
\* invalidations whose deletes may fail, and the passing of time, which
\* never stops while the clock is below MaxWaitMs.
NextExpiry ==
    \/ \E key \in Keys, config \in {[NoConfig EXCEPT !.ex = Set(1)],
                                      [NoConfig EXCEPT !.px = Set(2500)]},
          fail \in BOOLEAN :
            PutInTime(key, <<Num("1")>>, <<"users">>, FALSE, config, fail)
    \/ \E failing \in FailSets :
            OnMutate(Undefined, Scalar(TableName("users")), failing)
    \/ Expiry(1000)

SpecExpiry == Init /\ [][NextExpiry]_vars /\ WF_vars(Expiry(1000))

----------------------------------------------------------------------------
(* Construction                                                            *)

\* On an instance whose redis is undefined, this.redis.get(...) throws a
\* TypeError: inside the try of get and of put, outside any try in onMutate,
\* where it is thrown by the first unlink, before the tracking is cleaned up.
getNoStore(key) == Miss(<<>>)

putNoStore(store, used) ==
    [redis |-> store, used |-> used, raised |-> FALSE, io |-> <<>>]

onMutateNoStore(store, used, tags, tables) ==
    LET tagsArray == toArray(tags, <<>>)
        tablesArray == tableNames(toArray(tables, TableName("")))
        keysToDelete == collectKeys(used, tablesArray, <<>>)
    IN  [redis |-> store, used |-> used,
         raised |-> (Len(keysToDelete) > 0 \/ Len(tagsArray) > 0),
         io |-> <<>>]

InitNew ==
    /\ redis = [pk \in PhysKeys |-> NoEntry]
    /\ usedTablesPerKey = [t \in TableNames |-> NoKeys]
    /\ nowMs = 0
    /\ call = NoCall("none")
    /\ instance = "none"
    /\ inflight = EmptyBag
    /\ hist = NoHistory

New(redisGiven) ==
    /\ instance = "none"
    /\ instance' = constructor(redisGiven)
    /\ call' = NoCall("new")
    /\ UNCHANGED <<redis, usedTablesPerKey, nowMs, inflight, hist>>

GetNoStore(key) ==
    LET r == getNoStore(key)
    IN  /\ instance = "withoutStore"
        /\ call' = CallRecord("get", key, <<>>, <<>>, <<>>, FALSE, NoConfig,
                              r.raised, r.hit, r.result, r.io)
        /\ UNCHANGED <<redis, usedTablesPerKey, nowMs, instance, inflight, hist>>

PutNoStore(key, response, tables) ==
    LET r == putNoStore(redis, usedTablesPerKey)
    IN  /\ instance = "withoutStore"
        /\ call' = CallRecord("put", key, response, tables, <<>>, FALSE, NoConfig,
                              r.raised, FALSE, <<>>, r.io)
        /\ UNCHANGED <<redis, usedTablesPerKey, nowMs, instance, inflight, hist>>

OnMutateNoStore(tags, tables) ==
    LET r == onMutateNoStore(redis, usedTablesPerKey, tags, tables)
    IN  /\ instance = "withoutStore"
        /\ call' = CallRecord("onMutate", <<>>, <<>>,
                              tableNames(toArray(tables, TableName(""))),
                              toArray(tags, <<>>), FALSE, NoConfig,
                              r.raised, FALSE, <<>>, r.io)
        /\ UNCHANGED <<redis, usedTablesPerKey, nowMs, instance, inflight, hist>>

\* The cache from its construction, with or without a store handle.
NextNew ==
    \/ \E redisGiven \in BOOLEAN : New(redisGiven)
    \/ \E key \in Keys, fail \in BOOLEAN : instance = "withStore" /\ Get(key, fail)
    \/ \E key \in Keys, tables \in {<<"users">>, <<"posts">>}, fail \in BOOLEAN :
            instance = "withStore" /\ Put(key, <<Num("1")>>, tables, FALSE, NoConfig, fail)
    \/ \E tags \in TagParams, tables \in {Array(<<>>), Scalar(TableName("users"))},
          failing \in FailSets :
            instance = "withStore" /\ OnMutate(tags, tables, failing)
    \/ \E key \in Keys : GetNoStore(key)
    \/ \E key \in Keys, tables \in {<<"users">>, <<"posts">>} :
            PutNoStore(key, <<Num("1")>>, tables)
    \/ \E tags \in TagParams, tables \in {Array(<<>>), Scalar(TableName("users"))} :
            OnMutateNoStore(tags, tables)

SpecNew == InitNew /\ [][NextNew]_vars

----------------------------------------------------------------------------
(* Concurrent calls                                                        *)

\* A call is suspended only at its store round trip: put at the await of
\* setex, onMutate at the await of Promise.all.  The store applies a command
\* at some point after it was sent and before its reply resolves the await,
\* in no assumed order between calls; no store call fails.  Everything
\* before and after the await runs atomically (one event loop).  inflight is
\* the bag of the suspended calls.
Suspended(op, key, tables, targets, phase) ==
    [op |-> op, key |-> key, tables |-> tables, targets |-> targets, phase |-> phase]

Quiescent == inflight = EmptyBag

resume(c, next) == (inflight (-) SetToBag({c})) (+) SetToBag(next)

\* put up to its await: setex is sent.
PutSend(key, tables) ==
    LET shares(c) == c.op = "put" /\ \E i \in 1..Len(tables) : includes(c.tables, tables[i])
    IN  /\ BagCardinality(inflight) < MaxInFlight
        /\ inflight' = inflight (+) SetToBag({Suspended("put", key, tables, <<>>, "sent")})
        /\ hist' = IF hist.putsOnly
                     THEN [hist EXCEPT
                             !.declared = @ \cup { <<key, tables[i]>> : i \in 1..Len(tables) },
                             !.overlapped = @ \/ \E c \in BagToSet(inflight) : shares(c)]
                   ELSE hist
        /\ UNCHANGED <<redis, usedTablesPerKey, nowMs, call, instance>>

\* The store applies the setex.
PutApply(c) ==
    LET cacheKey == formatKey(c.key)
        ttl == calculateTtl(NoConfig, nowMs)
    IN  /\ c.op = "put" /\ c.phase = "sent"
        /\ redis' = setex(redis, cacheKey, ttl, JSONstringify(<<Num("1")>>), nowMs)
        /\ hist' = [hist EXCEPT !.writer[cacheKey] = c.tables]
        /\ inflight' = resume(c, {[c EXCEPT !.phase = "applied"]})
        /\ UNCHANGED <<usedTablesPerKey, nowMs, call, instance>>

\* put after its await: the key is registered under its tables.
PutDone(c) ==
    /\ c.op = "put" /\ c.phase = "applied"
    /\ usedTablesPerKey' = track(usedTablesPerKey, c.tables, c.key)
    /\ inflight' = resume(c, {})
    /\ UNCHANGED <<redis, nowMs, call, instance, hist>>

\* onMutate up to its await: the keys are collected, the unlinks are sent and
\* the tracking of the tables is cleaned up; with nothing to delete it
\* returns without a round trip and changes nothing.
MutateSend(tables) ==
    LET tablesArray == tableNames(toArray(tables, TableName("")))
        keysToDelete == collectKeys(usedTablesPerKey, tablesArray, <<>>)
        targets == [i \in 1..Len(keysToDelete) |-> formatKey(keysToDelete[i])]
    IN  /\ BagCardinality(inflight) < MaxInFlight
        /\ Len(keysToDelete) > 0
        /\ usedTablesPerKey' = clearTracking(usedTablesPerKey, tablesArray)
        /\ inflight' = inflight (+)
                SetToBag({Suspended("onMutate", <<>>, tablesArray, targets, "sent")})
        /\ hist' = [hist EXCEPT !.putsOnly = FALSE, !.declared = {}, !.overlapped = FALSE]
        /\ UNCHANGED <<redis, nowMs, call, instance>>

\* The store applies the unlinks and the reply resolves the await; nothing
\* runs after it.
MutateDone(c) ==
    /\ c.op = "onMutate" /\ c.phase = "sent"
    /\ redis' = unlinkAll(redis, c.targets, {})
    /\ inflight' = resume(c, {})
    /\ UNCHANGED <<usedTablesPerKey, nowMs, call, instance, hist>>

AsyncPutTables == { <<"users">>, <<"posts">>, <<"users", "posts">> }
AsyncMutateTables == { Scalar(TableName("users")), Array(<<TableName("posts")>>) }

NextAsync ==
    \/ \E key \in Keys, tables \in AsyncPutTables : PutSend(key, tables)
    \/ \E c \in BagToSet(inflight) : PutApply(c)
    \/ \E c \in BagToSet(inflight) : PutDone(c)
    \/ \E tables \in AsyncMutateTables : MutateSend(tables)
    \/ \E c \in BagToSet(inflight) : MutateDone(c)

SpecAsync == Init /\ [][NextAsync]_vars

----------------------------------------------------------------------------
(* Properties                                                              *)

TypeOK ==
    /\ nowMs \in 0..MaxClockMs
    /\ \A pk \in PhysKeys : redis[pk].live \in BOOLEAN
    /\ \A t \in TableNames : usedTablesPerKey[t].defined \in BOOLEAN

allOk(io) == \A i \in 1..Len(io) : io[i].ok
wrote(c) == c.op = "put" /\ Len(c.io) = 1 /\ c.io[1].ok
trackedUnder(used, tables, key) ==
    \E i \in 1..Len(tables) : includes(trackedKeys(used, tables[i]), key)

\* C1: when onMutate returns with every delete succeeded, every key that was
\* tracked under one of its tables when it was called is absent from the
\* store; a successful put registers its key under each of its tables; an
\* absent entry stays absent until a put of its key writes it; and get of an
\* absent entry returns absent.
C1_TableInvalidation ==
    [][ /\ (call'.op = "onMutate" /\ allOk(call'.io)) =>
            \A k \in Keys :
                trackedUnder(usedTablesPerKey, call'.tables, k) => ~redis'[formatKey(k)].live
        /\ wrote(call') =>
            \A i \in 1..Len(call'.tables) :
                includes(trackedKeys(usedTablesPerKey', call'.tables[i]), call'.key)
        /\ \A pk \in PhysKeys :
            (~redis[pk].live /\ redis'[pk].live) => (wrote(call') /\ formatKey(call'.key) = pk)
        /\ (call'.op = "get" /\ ~redis[formatKey(call'.key)].live) => ~call'.hit
      ]_vars

C1_Witness ==
    /\ call.op = "onMutate" /\ call.tags = <<>> /\ call.tables = <<"users">>
    /\ Len(call.io) > 0 /\ allOk(call.io)
    /\ \E i \in 1..Len(call.io) : call.io[i].key = formatKey(<<"q1">>)
    /\ ~redis[formatKey(<<"q1">>)].live

\* C2: onMutate with no tags leaves every store entry unchanged whose key is
\* tracked under none of the tables of the call.
C2_ScopedInvalidation ==
    [][ (call'.op = "onMutate" /\ call'.tags = <<>>) =>
            \A pk \in PhysKeys :
                (\A k \in Keys : trackedUnder(usedTablesPerKey, call'.tables, k)
                                    => formatKey(k) # pk)
                => redis'[pk] = redis[pk]
      ]_vars

C2_Witness ==
    /\ call.op = "onMutate" /\ call.tags = <<>> /\ call.tables = <<"posts">>
    /\ \E i \in 1..Len(call.io) : call.io[i].key = formatKey(<<"q2">>) /\ call.io[i].ok
    /\ ~redis[formatKey(<<"q2">>)].live
    /\ redis[formatKey(<<"q1">>)].live
    /\ includes(trackedKeys(usedTablesPerKey, "users"), <<"q1">>)

jsonSafe(rows) == \A i \in 1..Len(rows) : rows[i].t \in {"number", "string", "null"}

\* A successful put(key, rows, [], false, absent) directly followed by a
\* get(key) whose store read succeeds.
putThenGet ==
    /\ wrote(call) /\ call.tables = <<>> /\ ~call.isTag /\ call.config = NoConfig
    /\ call'.op = "get" /\ call'.key = call.key /\ allOk(call'.io)

\* C3 as stated: a successful put(key, rows, [], false, absent) followed by
\* get(key) returns rows equal to the rows that were put, for every rows.
C3_RoundTripAnyRows ==
    [][ putThenGet => (call'.hit /\ call'.result = call.rows) ]_vars

\* C3 amended: the round trip holds for rows made of JSON-representable
\* values (numbers, strings, null).
C3_RoundTripJson ==
    [][ (putThenGet /\ jsonSafe(call.rows)) => (call'.hit /\ call'.result = call.rows) ]_vars

C3_Witness ==
    /\ call.op = "get" /\ call.key = <<"q2">> /\ call.hit
    /\ call.result = <<Str("a"), NullVal>>
    /\ redis[formatKey(<<"q1">>)].live
    /\ redis[formatKey(<<"q1">>)].text # redis[formatKey(<<"q2">>)].text

ClaimedTtl(config, nowSeconds) ==
    CASE config.ex.set -> config.ex.v
      [] ~config.ex.set /\ config.px.set -> config.px.v \div 1000
      [] ~config.ex.set /\ ~config.px.set /\ config.exat.set ->
            Max(0, config.exat.v - nowSeconds)
      [] ~config.ex.set /\ ~config.px.set /\ ~config.exat.set /\ config.pxat.set ->
            Max(0, (config.pxat.v \div 1000) - nowSeconds)
      [] OTHER -> defaultTtl

\* C4: the TTL of the set-with-expiry call of put is ex if set, else
\* floor(px/1000) if set, else max(0, exat - now) if set, else
\* max(0, floor(pxat/1000) - now) if set, else the default; {ex:10, px:5000}
\* gives 10 and the empty config the default.
C4_TtlPrecedence ==
    call.op = "put" =>
        /\ Len(call.io) = 1
        /\ call.io[1].cmd = "setex"
        /\ call.io[1].ttl = ClaimedTtl(call.config, nowMs \div 1000)
        /\ (call.config.ex = Set(10) /\ call.config.px = Set(5000)) => call.io[1].ttl = 10
        /\ call.config = NoConfig => call.io[1].ttl = defaultTtl

C4_Witness ==
    /\ call.op = "put" /\ nowMs = 500
    /\ ~call.config.ex.set /\ ~call.config.px.set
    /\ call.config.exat = Set(2) /\ call.config.pxat.set
    /\ call.io[1].ttl = 2 /\ call.io[1].ok

\* C5: a delete that fails during onMutate does not make onMutate raise.
C5_FailedDeleteAbsorbed ==
    (call.op = "onMutate" /\ ~allOk(call.io)) => ~call.raised

\* C6: get never raises, and returns absent when the entry is absent or
\* expired, when the store read fails and when the payload does not parse.
C6_GetNeverRaises ==
    call.op = "get" =>
        /\ ~call.raised
        /\ ( \/ ~redis[formatKey(call.key)].live
             \/ ~allOk(call.io)
             \/ parseThrows(redis[formatKey(call.key)].text) ) => ~call.hit

C6_Witness ==
    /\ call.op = "get" /\ allOk(call.io) /\ ~call.hit /\ ~call.raised
    /\ redis[formatKey(call.key)].live
    /\ redis[formatKey(call.key)].text = TruncatedText

\* C7: when the store write of put fails, put does not raise and the table
\* index is unchanged; the index changes in a put only when its write succeeded.
C7_PutFailurePolicy ==
    [][ call'.op = "put" =>
            /\ ~call'.raised
            /\ ~wrote(call') => usedTablesPerKey' = usedTablesPerKey
      ]_vars

C7_Witness ==
    /\ call.op = "put" /\ Len(call.io) = 1 /\ ~call.io[1].ok
    /\ call.tables = <<"users", "posts">>
    /\ ~usedTablesPerKey["users"].defined /\ ~usedTablesPerKey["posts"].defined

\* C8: after a successful put(k, rows, tables, isTag = true, config),
\* onMutate({tags: [k], tables: []}) with its delete succeeding removes the
\* entry of k.
C8_TagInvalidatesEntry ==
    [][ ( /\ wrote(call) /\ call.isTag
          /\ call'.op = "onMutate" /\ call'.tags = <<call.key>> /\ call'.tables = <<>>
          /\ allOk(call'.io) )
        => ~redis'[formatKey(call.key)].live ]_vars

\* C9: onMutate({tags: [g], tables: []}) issues exactly one store delete, for
\* namespace + ":tag:" + g, and leaves the table index unchanged, whatever
\* was put before.
C9_TagDelete ==
    [][ (call'.op = "onMutate" /\ Len(call'.tags) = 1 /\ call'.tables = <<>>) =>
            /\ Len(call'.io) = 1
            /\ call'.io[1].cmd = "unlink"
            /\ call'.io[1].key = namespace \o <<":", "tag", ":">> \o call'.tags[1]
            /\ usedTablesPerKey' = usedTablesPerKey
      ]_vars

C9_Witness ==
    /\ call.op = "onMutate" /\ call.tags = << <<"q1">> >> /\ call.tables = <<>>
    /\ Len(call.io) = 1 /\ call.io[1].ok
    /\ \A t \in TableNames : ~usedTablesPerKey[t].defined
    /\ \A pk \in PhysKeys : ~redis[pk].live

\* C10: a second onMutate({tags: [], tables: T}) directly after the first
\* does not raise, issues no delete, and leaves store and table index as
\* they were.
C10_IdempotentInvalidation ==
    [][ ( /\ call.op = "onMutate" /\ call.tags = <<>>
          /\ call'.op = "onMutate" /\ call'.tags = <<>> /\ call'.tables = call.tables )
        => ( /\ ~call'.raised
             /\ call'.io = <<>>
             /\ redis' = redis
             /\ usedTablesPerKey' = usedTablesPerKey ) ]_vars

C10_Witness ==
    /\ call.op = "onMutate" /\ call.tags = <<>> /\ call.tables = <<"users">>
    /\ call.io = <<>> /\ ~call.raised
    /\ usedTablesPerKey["users"] = KeyList(<<>>)

noneTracked(used, tables) ==
    \A i \in 1..Len(tables) : trackedKeys(used, tables[i]) = <<>>

\* C11: with no tags and no key tracked under any table of the call,
\* onMutate issues no store call.
C11_NoOpShortCircuit ==
    [][ ( /\ call'.op = "onMutate" /\ call'.tags = <<>>
          /\ noneTracked(usedTablesPerKey, call'.tables) )
        => (call'.io = <<>> /\ redis' = redis) ]_vars

C11_Witness ==
    /\ call.op = "onMutate" /\ call.tags = <<>> /\ call.tables = <<"users", "posts">>
    /\ call.io = <<>>
    /\ \E pk \in PhysKeys : redis[pk].live

\* C12: when onMutate returns, the tracked key set of every table of the
\* call is empty, whether or not the table had keys or a delete was issued.
C12_TablesCleared ==
    [][ call'.op = "onMutate" => noneTracked(usedTablesPerKey', call'.tables) ]_vars

C12_Witness ==
    /\ call.op = "onMutate" /\ call.tables = <<"users", "posts">>
    /\ Len(call.io) = 1 /\ call.tags = <<>>
    /\ usedTablesPerKey["users"] = KeyList(<<>>)
    /\ usedTablesPerKey["posts"] = KeyList(<<>>)

hasPrefix(pk, prefix) ==
    Len(pk) >= Len(prefix) /\ SubSeq(pk, 1, Len(prefix)) = prefix

\* C14: every store call of get and put addresses namespace + ":" + key,
\* every tag delete of onMutate namespace + ":tag:" + tag and every other
\* delete namespace + ":" + a key; no call addresses a key without the
\* namespace prefix.
C14_Namespacing ==
    /\ call.op \in {"get", "put"} =>
        \A i \in 1..Len(call.io) : call.io[i].key = namespace \o <<":">> \o call.key
    /\ call.op = "onMutate" =>
        \A i \in 1..Len(call.io) :
            IF i <= Len(call.tags)
                THEN call.io[i].key = namespace \o <<":", "tag", ":">> \o call.tags[i]
                ELSE \E k \in Keys : call.io[i].key = namespace \o <<":">> \o k
    /\ \A i \in 1..Len(call.io) : hasPrefix(call.io[i].key, namespace \o <<":">>)

C14_Witness ==
    /\ call.op = "onMutate" /\ Len(call.tags) = 1 /\ Len(call.io) = 2
    /\ call.io[1].key = <<"drizzle", ":", "db", ":", "tag", ":", "q1">>
    /\ call.io[2].key = <<"drizzle", ":", "db", ":", "q2">>

\* C18: after an onMutate in which a delete failed the tracked key sets of
\* its tables are empty; a key enters a tracked key set only through a
\* successful put of that key; and onMutate without tags issues deletes only
\* for keys tracked under its tables. So the failed delete is not issued
\* again by a later onMutate on the same tables unless the key is put again.
C18_FailedDeleteNotRetried ==
    [][ /\ (call'.op = "onMutate" /\ ~allOk(call'.io)) =>
                noneTracked(usedTablesPerKey', call'.tables)
        /\ \A t \in TableNames, k \in Keys :
            ( /\ ~includes(trackedKeys(usedTablesPerKey, t), k)
              /\ includes(trackedKeys(usedTablesPerKey', t), k) )
            => (wrote(call') /\ call'.key = k)
        /\ (call'.op = "onMutate" /\ call'.tags = <<>>) =>
            \A i \in 1..Len(call'.io) :
                \E k \in Keys : /\ call'.io[i].key = formatKey(k)
                                /\ trackedUnder(usedTablesPerKey, call'.tables, k)
      ]_vars

C18_Witness ==
    /\ call.op = "onMutate" /\ call.tags = <<>> /\ call.tables = <<"users">>
    /\ Len(call.io) = 1 /\ ~call.io[1].ok /\ call.io[1].key = formatKey(<<"q1">>)
    /\ redis[formatKey(<<"q1">>)].live
    /\ usedTablesPerKey["users"] = KeyList(<<>>)

noDuplicates(seq) == \A i, j \in 1..Len(seq) : seq[i] = seq[j] => i = j

\* C19: no tracked key sequence ever holds a key twice; a put leaves the
\* sequence of a table unchanged when its key is already there and appends
\* the key otherwise.
C19_RegistrationIdempotent ==
    [][ /\ \A t \in TableNames : noDuplicates(trackedKeys(usedTablesPerKey', t))
        /\ wrote(call') =>
            \A i \in 1..Len(call'.tables) :
                LET before == trackedKeys(usedTablesPerKey, call'.tables[i])
                    after == trackedKeys(usedTablesPerKey', call'.tables[i])
                IN  after = IF includes(before, call'.key) THEN before
                            ELSE Append(before, call'.key)
      ]_vars

C19_Witness ==
    /\ wrote(call) /\ call.key = <<"q1">> /\ call.tables = <<"posts", "posts">>
    /\ usedTablesPerKey["posts"] = KeyList(<< <<"q1">>, <<"q2">> >>)

\* C20: onMutate issues exactly one delete for each key tracked under one
\* or more of its tables, also when the key is tracked under several of them
\* or a table is listed twice.
C20_DeleteOncePerKey ==
    [][ call'.op = "onMutate" =>
            \A k \in Keys :
                trackedUnder(usedTablesPerKey, call'.tables, k) =>
                    Cardinality({ i \in (Len(call'.tags) + 1)..Len(call'.io) :
                                    call'.io[i].key = formatKey(k) }) = 1
      ]_vars

C20_Witness ==
    /\ call.op = "onMutate" /\ call.tags = <<>> /\ call.tables = <<"users", "users">>
    /\ Len(call.io) = 1 /\ call.io[1].key = formatKey(<<"q1">>)

\* C13: construction without a store handle fails, so no instance without
\* a store handle exists on which get, put or onMutate could be called.
C13_RefusesWithoutStore ==
    instance # "withoutStore"


live(k) == redis[formatKey(k)].live
writerTables(k) == hist.writer[formatKey(k)]
keySet(t) == { trackedKeys(usedTablesPerKey, t)[i] :
                    i \in 1..Len(trackedKeys(usedTablesPerKey, t)) }
indexed == \A k \in Keys : live(k) =>
              \A i \in 1..Len(writerTables(k)) :
                  includes(trackedKeys(usedTablesPerKey, writerTables(k)[i]), k)

\* C15 as stated: in every state, the states between the store round trips
\* of concurrent calls included, every key whose entry is live is tracked
\* under every table declared by the put that wrote it.
C15_IndexInvariant == indexed

\* C15: in every state where no call is suspended at a store round trip, no
\* store call having failed, every key whose entry is live is tracked under
\* every table declared by the put that wrote it.
C15_IndexInvariantAtRest == Quiescent => indexed

\* Calls have interleaved with an onMutate, none is suspended, and a live
\* entry written for two tables is tracked under both.
C15_Witness ==
    /\ Quiescent /\ ~hist.putsOnly
    /\ live(<<"q1">>) /\ ~live(<<"q2">>)
    /\ writerTables(<<"q1">>) = <<"users", "posts">>
    /\ indexed

\* C16: once every call of a run of puts only has completed, each table's
\* tracked key sequence holds exactly the keys put with that table, each
\* once.
C16_ConcurrentPutsSafe ==
    (Quiescent /\ hist.putsOnly) =>
        \A t \in TableNames :
            /\ noDuplicates(trackedKeys(usedTablesPerKey, t))
            /\ keySet(t) = { k \in Keys : <<k, t>> \in hist.declared }

\* Puts sharing a table were suspended together, both keys were put with
\* users, and all have completed.
C16_Witness ==
    /\ Quiescent /\ hist.putsOnly /\ hist.overlapped
    /\ keySet("users") = Keys
    /\ keySet("posts") = { <<"q1">> }

\* C17: once all calls have completed, a key whose entry is live is among
\* the keys the next onMutate of a table it was put with collects; that
\* onMutate sends the delete of every such key, and when it completes the
\* entries it targeted are absent.
C17_NoUntrackedEntry ==
    /\ [](Quiescent =>
            \A k \in Keys : \A t \in TableNames :
                (live(k) /\ includes(writerTables(k), t))
                    => includes(collectKeys(usedTablesPerKey, <<t>>, <<>>), k))
    /\ [][ /\ \A c \in BagToSet(inflight') :
                (Quiescent /\ c.op = "onMutate") =>
                    \A k \in Keys :
                        (live(k) /\ \E i \in 1..Len(c.tables) :
                                        includes(writerTables(k), c.tables[i]))
                            => includes(c.targets, formatKey(k))
           /\ \A c \in BagToSet(inflight) :
                (c.op = "onMutate" /\ inflight' = inflight (-) SetToBag({c})) =>
                    \A i \in 1..Len(c.targets) : ~redis'[c.targets[i]].live
         ]_vars

\* An onMutate of posts has deleted q2; q1, put with users, is live, and the
\* onMutate of users called now is suspended with the delete of q1 sent.
C17_Witness ==
    /\ ~live(<<"q2">>) /\ writerTables(<<"q2">>) = <<"posts">>
    /\ live(<<"q1">>)
    /\ writerTables(<<"q1">>) = <<"users">>
    /\ inflight = SetToBag({Suspended("onMutate", <<>>, <<"users">>,
                                      <<formatKey(<<"q1">>)>>, "sent")})


keysOf(used, t) == trackedKeys(used, t)

\* C21: an onMutate leaves the tracked keys of every table it does not name
\* unchanged, also when it deletes a key tracked under such a table, and
\* leaves those of a table it names unchanged or empty; a put leaves the
\* tracked keys of every table it does not list unchanged and those of a
\* table it lists unchanged or extended by its key; nothing else changes the
\* index.
C21_IndexFrame ==
    [][ \A t \in TableNames :
          LET before == keysOf(usedTablesPerKey, t)
              after == keysOf(usedTablesPerKey', t)
          IN  /\ call'.op = "onMutate" =>
                    IF includes(call'.tables, t)
                        THEN after = before \/ after = <<>>
                        ELSE after = before
              /\ call'.op = "put" =>
                    IF includes(call'.tables, t)
                        THEN after = before \/ after = Append(before, call'.key)
                        ELSE after = before
              /\ call'.op \notin {"onMutate", "put"} => after = before
      ]_vars

\* An onMutate of users alone has deleted q1, which posts still tracks.
C21_Witness ==
    /\ call.op = "onMutate" /\ call.tables = <<"users">> /\ allOk(call.io)
    /\ \E i \in 1..Len(call.io) : call.io[i].key = formatKey(<<"q1">>)
    /\ ~redis[formatKey(<<"q1">>)].live
    /\ keysOf(usedTablesPerKey, "users") = <<>>
    /\ includes(keysOf(usedTablesPerKey, "posts"), <<"q1">>)


\* C23: a get, whether it hits, misses, or fails at the store read or at the
\* parse, makes exactly one store call, the read of its physical key, and
\* leaves the store and the table index as they were.
C23_GetReadOnly ==
    [][ call'.op = "get" =>
            /\ Len(call'.io) = 1
            /\ call'.io[1].cmd = "get"
            /\ call'.io[1].key = formatKey(call'.key)
            /\ redis' = redis
            /\ usedTablesPerKey' = usedTablesPerKey
      ]_vars

\* A get of q1 has missed on a live entry whose payload does not parse,
\* with q1 tracked under users.
C23_Witness ==
    /\ call.op = "get" /\ call.key = <<"q1">> /\ ~call.hit /\ allOk(call.io)
    /\ redis[formatKey(<<"q1">>)].live
    /\ redis[formatKey(<<"q1">>)].text = TruncatedText
    /\ includes(keysOf(usedTablesPerKey, "users"), <<"q1">>)


Deadlines == { seconds * 1000 : seconds \in 1..(MaxWaitMs \div 1000) }
entryDue(pk, deadline) == redis[pk].live /\ redis[pk].expMs = deadline

\* C22: a put makes at most one store call, a set-with-expiry, and changes
\* no entry but its own, which it leaves live with the deadline of a
\* positive TTL; every live entry has such a deadline ahead of the clock; and
\* as time passes every live entry, one left behind by a failed delete
\* included, is eventually absent or replaced by a later put.
C22_StaleUntilTtl ==
    /\ [][ call'.op = "put" =>
              /\ Len(call'.io) <= 1
              /\ \A i \in 1..Len(call'.io) : call'.io[i].cmd = "setex"
              /\ \A pk \in PhysKeys :
                    redis'[pk] # redis[pk] =>
                        /\ pk = formatKey(call'.key)
                        /\ wrote(call')
                        /\ call'.io[1].ttl > 0
                        /\ redis'[pk].live
                        /\ redis'[pk].expMs = nowMs + call'.io[1].ttl * 1000
         ]_vars
    /\ [](\A pk \in PhysKeys :
            redis[pk].live => (redis[pk].expMs \in Deadlines /\ redis[pk].expMs > nowMs))
    /\ \A pk \in PhysKeys : \A deadline \in Deadlines :
            entryDue(pk, deadline) ~> ~entryDue(pk, deadline)

\* Time has passed: the entry of q1, still tracked under users, has
\* expired, and the entry of q2, which a failed delete left live and
\* untracked, is still due.
C22_Witness ==
    /\ call.op = "tick" /\ nowMs = 1000
    /\ ~redis[formatKey(<<"q1">>)].live
    /\ keysOf(usedTablesPerKey, "users") = << <<"q1">> >>
    /\ entryDue(formatKey(<<"q2">>), 2000)

====
